---- MODULE Spec2Model ----
(***************************************************************************)
(* Bulk WhatsApp dispatch engine of the CRM backend (src/application.py,   *)
(* src/teleobi_client.py, src/models.py).                                  *)
(*                                                                         *)
(* One WhatsAppBulkJob row is modelled together with the threads and       *)
(* request handlers that read and write it:                                *)
(*   - process_bulk_whatsapp_job, one instance per launched thread         *)
(*   - api_cancel_bulk_job                                                 *)
(*   - recover_incomplete_jobs, api_recover_bulk_job and the auto-recovery *)
(*     branch of api_get_bulk_job_status                                   *)
(* Every db.session.commit()/refresh()/query is one atomic step on the     *)
(* row; code between two such statements is local to its thread.  The ORM  *)
(* session writes a column only when the assigned value differs from the   *)
(* value the session loaded, and expires the loaded values at commit.      *)
(***************************************************************************)
EXTENDS Integers, Sequences, FiniteSets, TLC

(* ---- bounds of the model ---- *)
MaxRecipients == 2
MaxDispatchers == 2
MaxLaunches == 2
MaxTime == 121
MaxSenders == 2
MaxSends == 3
MaxClock == 20
MaxTotalSends == 12
MaxRecords == 2
MaxPasses == 2
MaxSweepTime == 363

(* ---- program constants ---- *)
CheckInterval == 10
StaleAfter == 120
OldAfter == 300
AutoStaleAfter == 120

NULL == 0 - 1

Dispatchers == 1..MaxDispatchers
RecipientKinds == {"phone", "nophone"}
Terminal == {"completed", "partial", "failed", "cancelled"}
TickStep == StaleAfter + 1

VARIABLES
    job,         \* the persisted WhatsAppBulkJob row
    recipients,  \* job.recipients: per recipient, whether a phone number resolves
    now,         \* wall clock, seconds
    disp,        \* per thread: position and locals of process_bulk_whatsapp_job
    cancel,      \* the api_cancel_bulk_job request in flight
    rec,         \* the recovery request / sweep in flight
    resp,        \* the HTTP response the last step returned, "none" if it returned none
    hist,        \* history: threads launched so far; processed_count and status replaced
                 \* by the last cancel; recipients whose attempt failed so far; the
                 \* WhatsAppSend rows the job's threads have committed
    lim,         \* the shared TeleobiClient: its rate limiter, its quality metrics
                 \* and the threads using it
    gate,        \* the POST send-bulk request in flight and what the client reports to it
    recon,       \* the WhatsAppSend records, the last fetch-details response and
                 \* the last provider answer fetch-details has worked through
    client       \* whether this process holds a built client (_teleobi_client)

vars == <<job, recipients, now, disp, cancel, rec, resp, hist, lim, gate, recon,
          client>>

\* the part of the state the job's threads and handlers do not touch
side == <<lim, gate, recon>>

(***************************************************************************)
(* Pure pieces of the code                                                 *)
(***************************************************************************)

\* application.py:5785  if bulk_job.status in ['completed', 'failed', 'cancelled']
AlreadyFinished(status) == status \in {"completed", "failed", "cancelled"}

\* A run that ignores the persisted progress and starts over
StartIndexFromZero(j) == 0

\* application.py:5790  start_index = bulk_job.processed_count or 0
StartIndex(j) == j.processed_count

\* application.py:5819  processed_count % 10 == 0 or processed_count == start_index + 1
ShouldCheckCancel(processed, start_index) ==
    \/ processed % CheckInterval = 0
    \/ processed = start_index + 1

\* A handler that gives up on the rest of the list after an exception
BreakLoop(index, n) == n

\* application.py:5966  continue: on to the next index of range(start_index, n)
Continue(index, n) == index + 1

\* application.py:5975  'completed' if failed_count == 0 else 'partial'
FinalStatus(failed_count) == IF failed_count = 0 THEN "completed" ELSE "partial"

\* A cancel guard with the status list of 5785, which leaves out 'partial'
CancellableUnlessFinished(status) == status \notin {"completed", "failed", "cancelled"}

\* application.py:6237  job.status not in ['pending', 'processing'] -> 400
Cancellable(status) == status \in {"pending", "processing"}

\* application.py:6292, 6306  job.status not in ['processing', 'pending'] -> 400
Recoverable(status) == status \in {"processing", "pending"}

\* A sweep that, like the manual recover, also picks up pending jobs
SweepSelectsUnfinished(j) ==
    /\ j.status \in {"processing", "pending"}
    /\ j.processed_count < j.total_recipients

\* application.py:6013-6016  the sweep's query filter
SweepSelects(j) ==
    /\ j.status = "processing"
    /\ j.processed_count < j.total_recipients

\* A sweep that resumes a started job only by the age of its start
ResumeOnlyWhenOld(j, t) ==
    IF j.started_at # NULL THEN t - j.started_at > OldAfter ELSE TRUE

\* application.py:6025-6044  should_resume
SweepShouldResume(j, t) ==
    IF j.started_at # NULL
    THEN \/ t - j.updated_at > StaleAfter
         \/ t - j.started_at > OldAfter
    ELSE TRUE

\* application.py:6087  the auto-recovery precondition of GET job/{id}
AutoRecoverCandidate(j) ==
    /\ j.status = "processing"
    /\ j.processed_count < j.total_recipients

\* application.py:6093-6106  time_since_update and time_since_update > 120
\* (updated_at is always set: models.py:323 gives it an insert default)
AutoRecoverDue(j, t) == t - j.updated_at > AutoStaleAfter

\* models.py:323  onupdate: every UPDATE of the row stamps updated_at
Touch(j, t) == [j EXCEPT !.updated_at = t]

(***************************************************************************)
(* TeleobiRateLimiter (teleobi_client.py:60-189).  Times are in tenths of  *)
(* a second and per_second is in tenths of a message, so that 0.5 msg/s    *)
(* and the 0.1 s floor of the reported wait are integers.                  *)
(***************************************************************************)

Tenths == 10

Max(a, b) == IF a >= b THEN a ELSE b

\* teleobi_client.py:70-75  TIER_LIMITS (per_day None is NULL)
TIER_LIMITS ==
    [t \in 1..4 |->
        CASE t = 1 -> [per_second |-> 5, per_minute |-> 20,
                       per_hour |-> 1000, per_day |-> 1000]
          [] t = 2 -> [per_second |-> 10, per_minute |-> 50,
                       per_hour |-> 5000, per_day |-> 10000]
          [] t = 3 -> [per_second |-> 20, per_minute |-> 100,
                       per_hour |-> 50000, per_day |-> 100000]
          [] t = 4 -> [per_second |-> 50, per_minute |-> 300,
                       per_hour |-> 500000, per_day |-> NULL]]

Tiers == DOMAIN TIER_LIMITS

\* teleobi_client.py:110-119  the widths of the four windows
SecondWindow == 1 * Tenths
MinuteWindow == 60 * Tenths
HourWindow == 3600 * Tenths
DayWindow == 86400 * Tenths

Senders == 1..MaxSenders

\* teleobi_client.py:220-227  quality_metrics of a new client
NoSends == [total_sends |-> 0, successful_sends |-> 0, failed_sends |-> 0]

\* teleobi_client.py:76-92 and 198-227  __init__; the rest is the model's: th,
\* what each thread using the client is doing; throttled, whether can_send
\* has refused the thread's current recipient; log, every timestamp
\* record_send stored; results, the answers of can_send to a direct caller;
\* outcomes, how the threads' recipients ended; stats_call, the get_stats
\* call under way: the window it is at (0: none), its time.time() and the
\* list it has built for that window
NewLimiter(tier) ==
    [tier |-> tier,
     secondly_sends |-> <<>>, minutely_sends |-> <<>>,
     hourly_sends |-> <<>>, daily_sends |-> <<>>,
     quality_metrics |-> NoSends,
     clock |-> 0,
     th |-> [s \in Senders |-> "idle"],
     throttled |-> [s \in Senders |-> FALSE],
     log |-> <<>>,
     results |-> <<>>,
     outcomes |-> <<>>,
     stats_call |-> [window |-> 0, now |-> 0, kept |-> <<>>]]

Within(sends, t, width) == SelectSeq(sends, LAMBDA x : t - x < width)

\* teleobi_client.py:105-119  _clean_old_entries
CleanOldEntries(l, t) ==
    [l EXCEPT !.secondly_sends = Within(@, t, SecondWindow),
              !.minutely_sends = Within(@, t, MinuteWindow),
              !.hourly_sends = Within(@, t, HourWindow),
              !.daily_sends = Within(@, t, DayWindow)]

\* max(0.1, width - (now - sends[0])) if sends else width
WaitFor(sends, t, width) ==
    IF sends # <<>> THEN Max(1, width - (t - sends[1])) ELSE Max(1, width)

\* teleobi_client.py:121-154  can_send on the cleaned lists: the first window
\* at capacity decides
CanSend(l, t) ==
    LET limits == TIER_LIMITS[l.tier]
    IN  IF Tenths * Len(l.secondly_sends) >= limits.per_second
        THEN [allowed |-> FALSE, wait |-> WaitFor(l.secondly_sends, t, SecondWindow)]
        ELSE IF Len(l.minutely_sends) >= limits.per_minute
        THEN [allowed |-> FALSE, wait |-> WaitFor(l.minutely_sends, t, MinuteWindow)]
        ELSE IF Len(l.hourly_sends) >= limits.per_hour
        THEN [allowed |-> FALSE, wait |-> WaitFor(l.hourly_sends, t, HourWindow)]
        ELSE IF limits.per_day # NULL /\ Len(l.daily_sends) >= limits.per_day
        THEN [allowed |-> FALSE, wait |-> WaitFor(l.daily_sends, t, DayWindow)]
        ELSE [allowed |-> TRUE, wait |-> 0]

\* teleobi_client.py:156-166  record_send
RecordSend(l, t) ==
    [l EXCEPT !.secondly_sends = Append(@, t),
              !.minutely_sends = Append(@, t),
              !.hourly_sends = Append(@, t),
              !.daily_sends = Append(@, t),
              !.log = Append(@, t)]

\* A breaker that opens as soon as half of the sends have failed
FailureRateAtLeastHalf(m) ==
    m.total_sends > 0 /\ 2 * m.failed_sends >= m.total_sends

\* teleobi_client.py:744-747  total_sends > 0 and
\* failed_sends / total_sends > 0.5
FailureRateHigh(m) ==
    m.total_sends > 0 /\ 2 * m.failed_sends > m.total_sends

\* the four window lists in the order _clean_old_entries goes through them
WindowNames ==
    <<"secondly_sends", "minutely_sends", "hourly_sends", "daily_sends">>

WindowWidths == <<SecondWindow, MinuteWindow, HourWindow, DayWindow>>

\* teleobi_client.py:168-189  get_stats()['per_day'] on the cleaned lists
DailyStats(l) ==
    [used |-> Len(l.daily_sends), limit |-> TIER_LIMITS[l.tier].per_day]

(***************************************************************************)
(* POST send-bulk: the admission checks (application.py:5679-5705) on the  *)
(* client's quality metrics (teleobi_client.py:813-823)                    *)
(***************************************************************************)

\* success_rate < num/den, with success_rate = successful_sends / total_sends
\* when total_sends > 0 and 0.0 otherwise (teleobi_client.py:815-817)
SuccessRateBelow(m, num, den) ==
    IF m.total_sends > 0
    THEN m.successful_sends * den < num * m.total_sends
    ELSE 0 < num

\* A quality rule that looks at the success rate from the first send on
QualityLowFromFirstSend(m) == m.total_sends > 0 /\ SuccessRateBelow(m, 3, 10)

\* application.py:5689  total_sends > 10 and success_rate < 0.3
QualityLow(m) == m.total_sends > 10 /\ SuccessRateBelow(m, 3, 10)

\* A daily cap that also refuses a request that would exactly reach the limit
DailyLimitReached(stats, n) ==
    stats.limit # NULL /\ stats.used + n >= stats.limit

\* application.py:5696-5700  daily_limit != 'unlimited' and
\* daily_used + len(recipients) > daily_limit
DailyLimitExceeded(stats, n) ==
    stats.limit # NULL /\ stats.used + n > stats.limit

\* the row before POST send-bulk has created it
NoJob ==
    [status |-> "none", total_recipients |-> 0, processed_count |-> 0,
     sent_count |-> 0, failed_count |-> 0, started_at |-> NULL,
     updated_at |-> 0]

\* no request in flight
NoRequest ==
    [pc |-> "done", n |-> 0, total_sends |-> 0, successful_sends |-> 0,
     resp |-> "none"]

(***************************************************************************)
(* WhatsAppSend records and POST fetch-details (application.py:6458-6650)  *)
(***************************************************************************)

RecordIds == 1..MaxRecords

\* the job whose details are fetched, and another job that sent the same
\* template within the same day
JobJ == 1
JobK == 2

\* application.py:5893-5916  a record as the thread writes it: 'sent' with the
\* provider's message id or 'failed' without; the job id is stored in the
\* variables JSON only when the job has variables
NewRecords ==
    [RecordIds -> [owner : {JobJ, JobK}, tagged : BOOLEAN,
                   status : {"sent"}, wa_message_id : {TRUE}]
                  \cup
                  [owner : {JobJ, JobK}, tagged : BOOLEAN,
                   status : {"failed"}, wa_message_id : {FALSE}]]

NoStats == [delivered_count |-> NULL, read_count |-> NULL, failed_count |-> NULL]

\* get_message_status returned {} (teleobi_client.py:806-811)
NoAnswer ==
    [has_data |-> FALSE, message_status |-> "", read_time |-> FALSE,
     failed_time |-> FALSE, delivery_status_updated_at |-> FALSE]

\* what get_message_status can return: {} or the fields the handler reads
\* (application.py:6544-6556)
StatusData ==
    [has_data : {TRUE},
     message_status : {"", "sent", "delivered", "read", "failed"},
     read_time : BOOLEAN, failed_time : BOOLEAN,
     delivery_status_updated_at : BOOLEAN]
    \cup {NoAnswer}

\* application.py:6480-6505  the records the pass polls for job j: same
\* template and day, and the stored job id is j or absent
FetchSelects(r, j) == r.tagged => r.owner = j

\* application.py:6539  the provider is asked only for these records
Polled(r) == r.wa_message_id /\ r.status # "failed"

\* A handler that looks at the failure fields before the delivery fields
NewStatusFailedFirst(r, sd) ==
    IF ~Polled(r) THEN r.status
    ELSE IF ~sd.has_data THEN r.status
    ELSE IF /\ sd.message_status = ""
            /\ ~sd.read_time
            /\ ~sd.failed_time
            /\ ~sd.delivery_status_updated_at THEN r.status
    ELSE IF sd.read_time THEN "read"
    ELSE IF sd.message_status = "failed" \/ sd.failed_time THEN "failed"
    ELSE IF sd.message_status = "delivered" \/ sd.delivery_status_updated_at
         THEN "delivered"
    ELSE IF sd.message_status = "sent" \/ sd.message_status = "" THEN "sent"
    ELSE r.status

\* application.py:6538-6612  the status the handler leaves in one record
NewStatus(r, sd) ==
    IF ~Polled(r) THEN r.status
    ELSE IF ~sd.has_data THEN r.status
    ELSE IF /\ sd.message_status = ""
            /\ ~sd.read_time
            /\ ~sd.failed_time
            /\ ~sd.delivery_status_updated_at THEN r.status
    ELSE IF sd.read_time THEN "read"
    ELSE IF sd.message_status = "delivered" \/ sd.delivery_status_updated_at
         THEN "delivered"
    ELSE IF sd.message_status = "failed" \/ sd.failed_time THEN "failed"
    ELSE IF sd.message_status = "sent" \/ sd.message_status = "" THEN "sent"
    ELSE r.status

\* application.py:6628-6638  the statistics of the response: every record of
\* the template created since the job was
Recalculate(records) ==
    [delivered_count |->
        Cardinality({i \in RecordIds : records[i].status \in {"delivered", "read"}}),
     read_count |->
        Cardinality({i \in RecordIds : records[i].status = "read"}),
     failed_count |->
        Cardinality({i \in RecordIds : records[i].status = "failed"})]

\* A handler that stores what it has counted in the job row
JobWithFetchedCounts(j, records) ==
    [j EXCEPT !.processed_count = Cardinality(DOMAIN records),
              !.sent_count = Cardinality({i \in DOMAIN records :
                                            records[i].status # "failed"})]

\* application.py:6470-6626  the handler reads the job row (6472) and assigns
\* none of its columns, so its commit (6626) writes the send records only
JobAfterFetch(j, records) == j

NoRecords ==
    [records |-> [i \in RecordIds |->
                    [owner |-> JobJ, tagged |-> TRUE, status |-> "sent",
                     wa_message_id |-> TRUE]],
     stats |-> NoStats, passes |-> 0,
     polled |-> [id |-> 0, before |-> "none", answer |-> NoAnswer]]

(***************************************************************************)
(* Initial state: POST send-bulk has committed the row (5708-5720) and     *)
(* started the first thread (5725-5730).                                   *)
(***************************************************************************)

IdleDispatcher ==
    [pc |-> "idle", start_index |-> 0, index |-> 0, sent_count |-> 0,
     failed_count |-> 0, seen_status |-> "none", seen_started |-> NULL,
     result |-> "none", loaded_k |-> 0, recovery |-> FALSE]

NewJob(n) ==
    [status |-> "pending", total_recipients |-> n, processed_count |-> 0,
     sent_count |-> 0, failed_count |-> 0, started_at |-> NULL,
     updated_at |-> 0]

RecipientLists ==
    UNION {[1..n -> RecipientKinds] : n \in 1..MaxRecipients}

NoHistory ==
    [launches |-> 1, cancel_at |-> NULL, cancel_from |-> "none", fails |-> 0,
     records |-> 0]

Init ==
    /\ recipients \in RecipientLists
    /\ job = NewJob(Len(recipients))
    /\ now = 0
    /\ disp = [d \in Dispatchers |->
                 IF d = 1 THEN [IdleDispatcher EXCEPT !.pc = "launched"]
                 ELSE IdleDispatcher]
    /\ cancel = "idle"
    /\ rec = "idle"
    /\ resp = "none"
    /\ hist = NoHistory
    /\ lim = NewLimiter(1)
    /\ gate = NoRequest
    /\ recon = NoRecords
    /\ client = TRUE

(***************************************************************************)
(* process_bulk_whatsapp_job                                               *)
(***************************************************************************)

\* 5766-5790: load the row; no stored recipients -> 'failed'; leave if it is
\* already finished; fix start_index
Load(d) ==
    /\ disp[d].pc = "launched"
    /\ IF recipients = <<>>
       THEN /\ job' = Touch([job EXCEPT !.status = "failed"], now)
            /\ disp' = [disp EXCEPT ![d] = IdleDispatcher]
       ELSE /\ job' = job
            /\ IF AlreadyFinished(job.status)
               THEN disp' = [disp EXCEPT ![d] = IdleDispatcher]
               ELSE disp' = [disp EXCEPT ![d] =
                        [IdleDispatcher EXCEPT
                            !.pc = "claim",
                            !.recovery = disp[d].recovery,
                            !.start_index = StartIndex(job),
                            !.index = StartIndex(job),
                            !.loaded_k = job.processed_count,
                            !.seen_status = job.status,
                            !.seen_started = job.started_at]]
    /\ UNCHANGED <<recipients, now, cancel, rec, hist>>
    /\ resp' = "none"
    /\ UNCHANGED <<side, client>>

\* 5794-5797: status = 'processing', started_at if unset, commit.
\* Only the columns whose value differs from the loaded one are written.
Claim(d) ==
    /\ disp[d].pc = "claim"
    /\ LET writeStatus == disp[d].seen_status # "processing"
           writeStart == disp[d].seen_started = NULL
           j1 == IF writeStatus THEN [job EXCEPT !.status = "processing"] ELSE job
           j2 == IF writeStart THEN [j1 EXCEPT !.started_at = now] ELSE j1
       IN  job' = IF writeStatus \/ writeStart THEN Touch(j2, now) ELSE job
    /\ disp' = [disp EXCEPT ![d].pc = "client",
                            ![d].seen_status = "none",
                            ![d].seen_started = NULL]
    /\ UNCHANGED <<recipients, now, cancel, rec, hist>>
    /\ resp' = "none"
    /\ UNCHANGED <<side, client>>

\* 5800-5811: get_teleobi_client() (5366-5377) returns the client the process
\* has built, or builds one, which can fail; no client -> status 'failed';
\* otherwise read the persisted sent_count and failed_count into the
\* thread's counters.
GetClient(d) ==
    /\ disp[d].pc = "client"
    /\ \E available \in (IF client THEN {TRUE} ELSE BOOLEAN) :
         /\ client' = available
         /\ IF available
            THEN /\ disp' = [disp EXCEPT ![d].pc = "loop",
                                         ![d].sent_count = job.sent_count,
                                         ![d].failed_count = job.failed_count]
                 /\ job' = job
            ELSE /\ job' = Touch([job EXCEPT !.status = "failed"], now)
                 /\ disp' = [disp EXCEPT ![d] = IdleDispatcher]
    /\ UNCHANGED <<recipients, now, cancel, rec, hist>>
    /\ resp' = "none"
    /\ UNCHANGED side

Outcomes == {"no_template", "raise", "ok", "error"}

\* 5814-5890: one pass of the loop body for recipients[index] up to the point
\* where its result is about to be persisted: the periodic cancellation
\* check, the phone number lookup, the limiter gate, the template lookup and
\* the provider call.  Only the cancellation check touches the job row.
Iterate(d) ==
    /\ disp[d].pc = "loop"
    /\ disp[d].index < job.total_recipients
    /\ LET processed == disp[d].index + 1
           checks == ShouldCheckCancel(processed, disp[d].start_index)
       IN  IF checks /\ job.status = "cancelled"
           THEN \* 5821-5825: completed_at, commit, return
                /\ disp' = [disp EXCEPT ![d] = IdleDispatcher]
                /\ job' = Touch(job, now)
                /\ hist' = hist
           ELSE /\ job' = job
                /\ IF recipients[processed] = "nophone"
                   THEN \* 5844-5846: failed_count += 1; continue
                        /\ disp' = [disp EXCEPT ![d].failed_count = @ + 1,
                                                ![d].index = @ + 1]
                        /\ hist' = [hist EXCEPT !.fails = @ + 1]
                   ELSE /\ \E o \in Outcomes :
                             disp' = [disp EXCEPT
                                        ![d].pc = IF o = "raise" THEN "except" ELSE "persist",
                                        ![d].result = IF o = "raise" THEN "none" ELSE o]
                        /\ hist' = hist
    /\ UNCHANGED <<recipients, now, cancel, rec>>
    /\ resp' = "none"
    /\ UNCHANGED <<side, client>>

\* 5859-5874: template (or its id) missing: failed_count is committed,
\* processed_count is not
PersistNoTemplate(d) ==
    /\ disp[d].pc = "persist"
    /\ disp[d].result = "no_template"
    /\ job' = Touch([job EXCEPT !.failed_count = disp[d].failed_count + 1], now)
    /\ disp' = [disp EXCEPT ![d].failed_count = @ + 1,
                            ![d].index = @ + 1,
                            ![d].result = "none",
                            ![d].pc = "loop"]
    /\ hist' = [hist EXCEPT !.fails = @ + 1]
    /\ UNCHANGED <<recipients, now, cancel, rec>>
    /\ resp' = "none"
    /\ UNCHANGED <<side, client>>

\* 5892-5943: send record (status 'sent' with the provider's message id, or
\* 'failed' with the error message), counters, processed_count, commit.  When
\* the commit raises, the transaction is rolled back, the added record with
\* it, and the thread's counters keep their increments on the way to the
\* handler at 5945.
PersistResult(d) ==
    /\ disp[d].pc = "persist"
    /\ disp[d].result \in {"ok", "error"}
    /\ LET ok == disp[d].result = "ok"
           sent == IF ok THEN disp[d].sent_count + 1 ELSE disp[d].sent_count
           failed == IF ok THEN disp[d].failed_count ELSE disp[d].failed_count + 1
       IN  \E committed \in BOOLEAN :
             IF committed
             THEN /\ job' = Touch([job EXCEPT
                                     !.sent_count = IF ok THEN sent ELSE @,
                                     !.failed_count = IF ok THEN @ ELSE failed,
                                     !.processed_count = disp[d].index + 1], now)
                  /\ disp' = [disp EXCEPT ![d].sent_count = sent,
                                          ![d].failed_count = failed,
                                          ![d].index = @ + 1,
                                          ![d].result = "none",
                                          ![d].pc = "loop"]
                  /\ hist' = [hist EXCEPT !.fails = IF ok THEN @ ELSE @ + 1,
                                          !.records = @ + 1]
             ELSE /\ job' = job
                  /\ hist' = hist
                  /\ disp' = [disp EXCEPT ![d].sent_count = sent,
                                          ![d].failed_count = failed,
                                          ![d].result = "none",
                                          ![d].pc = "except"]
    /\ UNCHANGED <<recipients, now, cancel, rec>>
    /\ resp' = "none"
    /\ UNCHANGED <<side, client>>

\* 5945-5966: per-recipient exception handler
Except(d) ==
    /\ disp[d].pc = "except"
    /\ job' = Touch([job EXCEPT !.failed_count = disp[d].failed_count + 1,
                                !.processed_count = disp[d].index + 1], now)
    /\ disp' = [disp EXCEPT ![d].failed_count = @ + 1,
                            ![d].index = Continue(@, job.total_recipients),
                            ![d].pc = "loop"]
    /\ hist' = [hist EXCEPT !.fails = @ + 1]
    /\ UNCHANGED <<recipients, now, cancel, rec>>
    /\ resp' = "none"
    /\ UNCHANGED <<side, client>>

\* 5968-5972: after the loop, refresh and leave if cancelled
FinalRefresh(d) ==
    /\ disp[d].pc = "loop"
    /\ disp[d].index >= job.total_recipients
    /\ IF job.status = "cancelled"
       THEN disp' = [disp EXCEPT ![d] = IdleDispatcher]
       ELSE disp' = [disp EXCEPT ![d].pc = "finalize",
                                 ![d].seen_status = job.status]
    /\ UNCHANGED <<job, recipients, now, cancel, rec, hist>>
    /\ resp' = "none"
    /\ UNCHANGED <<side, client>>

\* 5974-5980: final status and counters, commit
Finalize(d) ==
    /\ disp[d].pc = "finalize"
    /\ LET st == FinalStatus(disp[d].failed_count)
       IN  job' = Touch([job EXCEPT
                           !.status = IF st # disp[d].seen_status THEN st ELSE @,
                           !.sent_count = disp[d].sent_count,
                           !.failed_count = disp[d].failed_count,
                           !.processed_count = job.total_recipients], now)
    /\ disp' = [disp EXCEPT ![d] = IdleDispatcher]
    /\ UNCHANGED <<recipients, now, cancel, rec, hist>>
    /\ resp' = "none"
    /\ UNCHANGED <<side, client>>

\* 5984-6003: a database statement outside the per-recipient try raises
\* (commit 5797, refresh 5820 or 5969, commit 5980) and the exception reaches
\* the top-level handler, which reads the row again, sets 'failed' when
\* processed_count is 0, and commits; when the handler's own statements
\* raise, nothing is written.  The thread ends.
Abort(d) ==
    /\ disp[d].pc \in {"claim", "loop", "finalize"}
    /\ \E handled \in BOOLEAN :
         job' = IF handled /\ job.processed_count = 0
                THEN Touch([job EXCEPT !.status = "failed"], now)
                ELSE job
    /\ disp' = [disp EXCEPT ![d] = IdleDispatcher]
    /\ UNCHANGED <<recipients, now, cancel, rec, hist>>
    /\ resp' = "none"
    /\ UNCHANGED <<side, client>>

Dispatcher(d) ==
    \/ Load(d)
    \/ Claim(d)
    \/ GetClient(d)
    \/ Iterate(d)
    \/ PersistNoTemplate(d)
    \/ PersistResult(d)
    \/ Except(d)
    \/ FinalRefresh(d)
    \/ Finalize(d)

(***************************************************************************)
(* threading.Thread(target=process_bulk_whatsapp_job).start()              *)
(* (6053-6058, 6109-6114, 6315-6320)                                       *)
(***************************************************************************)

IdleSlots == {d \in Dispatchers : disp[d].pc = "idle"}

CanLaunch == IdleSlots # {} /\ hist.launches < MaxLaunches

LaunchThread ==
    LET d == CHOOSE x \in IdleSlots : \A y \in IdleSlots : x <= y
    IN  /\ disp' = [disp EXCEPT ![d] = [IdleDispatcher EXCEPT !.pc = "launched",
                                                              !.recovery = TRUE]]
        /\ hist' = [hist EXCEPT !.launches = @ + 1]

(***************************************************************************)
(* api_cancel_bulk_job                                                     *)
(***************************************************************************)

\* 6230-6241: load the job, reject unless pending or processing
CancelLoad ==
    /\ cancel = "idle"
    /\ IF Cancellable(job.status)
       THEN cancel' = "loaded" /\ resp' = "none"
       ELSE cancel' = "idle" /\ resp' = "cancel_400"
    /\ UNCHANGED <<job, recipients, now, disp, rec, hist>>
    /\ UNCHANGED <<side, client>>

\* 6243-6247: status = 'cancelled', completed_at, commit
CancelCommit ==
    /\ cancel = "loaded"
    /\ job' = Touch([job EXCEPT !.status = "cancelled"], now)
    /\ cancel' = "idle"
    /\ resp' = "cancel_200"
    /\ hist' = [hist EXCEPT !.cancel_at = job.processed_count,
                            !.cancel_from = job.status]
    /\ UNCHANGED <<recipients, now, disp, rec>>
    /\ UNCHANGED <<side, client>>

(***************************************************************************)
(* api_recover_bulk_job                                                    *)
(***************************************************************************)

\* 6284-6302: load the job, reject a finished or fully processed job
RecoverLoad ==
    /\ rec = "idle"
    /\ IF Recoverable(job.status) /\ job.processed_count < job.total_recipients
       THEN rec' = "manual" /\ resp' = "none"
       ELSE rec' = "idle" /\ resp' = "recover_400"
    /\ UNCHANGED <<job, recipients, now, disp, cancel, hist>>
    /\ UNCHANGED <<side, client>>

\* 6304-6320: refresh, re-check the status, start the thread
RecoverLaunch ==
    /\ rec = "manual"
    /\ IF Recoverable(job.status)
       THEN CanLaunch /\ LaunchThread /\ resp' = "recover_200"
       ELSE UNCHANGED <<disp, hist>> /\ resp' = "recover_400"
    /\ rec' = "idle"
    /\ UNCHANGED <<job, recipients, now, cancel>>
    /\ UNCHANGED <<side, client>>

(***************************************************************************)
(* api_get_bulk_job_status: the auto-recovery branch                       *)
(***************************************************************************)

\* 6079-6087: load the job; only a processing, incomplete job is looked at
GetStatusLoad ==
    /\ rec = "idle"
    /\ AutoRecoverCandidate(job)
    /\ rec' = "get"
    /\ UNCHANGED <<job, recipients, now, disp, cancel, hist>>
    /\ resp' = "none"
    /\ UNCHANGED <<side, client>>

\* 6089-6114: refresh, re-check the status, start the thread when stale
GetStatusLaunch ==
    /\ rec = "get"
    /\ IF job.status = "processing" /\ AutoRecoverDue(job, now)
       THEN CanLaunch /\ LaunchThread
       ELSE UNCHANGED <<disp, hist>>
    /\ rec' = "idle"
    /\ UNCHANGED <<job, recipients, now, cancel>>
    /\ resp' = "none"
    /\ UNCHANGED <<side, client>>

(***************************************************************************)
(* recover_incomplete_jobs, called once when the process starts (6901)     *)
(***************************************************************************)

NoThreadAlive == \A d \in Dispatchers : disp[d].pc = "idle"

\* 6013-6044: select the incomplete jobs and decide should_resume
SweepSelect ==
    /\ rec = "idle"
    /\ NoThreadAlive
    /\ SweepSelects(job)
    /\ SweepShouldResume(job, now)
    /\ rec' = "sweep"
    /\ UNCHANGED <<job, recipients, now, disp, cancel, hist>>
    /\ resp' = "none"
    /\ UNCHANGED <<side, client>>

\* 6046-6058: refresh, re-check the status, start the thread
SweepLaunch ==
    /\ rec = "sweep"
    /\ IF job.status = "processing"
       THEN CanLaunch /\ LaunchThread
       ELSE UNCHANGED <<disp, hist>>
    /\ rec' = "idle"
    /\ UNCHANGED <<job, recipients, now, cancel>>
    /\ resp' = "none"
    /\ UNCHANGED <<side, client>>

(***************************************************************************)
(* Environment                                                             *)
(***************************************************************************)

TickTo(limit) ==
    /\ now + TickStep <= limit
    /\ now' = now + TickStep
    /\ UNCHANGED <<job, recipients, disp, cancel, rec, hist>>
    /\ resp' = "none"
    /\ UNCHANGED <<side, client>>

Tick == TickTo(MaxTime)

\* The process is killed and restarted: its threads, the requests it was
\* serving and its client are gone, the persisted row stays as it is.
Crash ==
    /\ \/ ~NoThreadAlive
       \/ cancel # "idle"
       \/ rec # "idle"
    /\ disp' = [d \in Dispatchers |-> IdleDispatcher]
    /\ cancel' = "idle"
    /\ rec' = "idle"
    /\ client' = FALSE
    /\ UNCHANGED <<job, recipients, now, hist>>
    /\ resp' = "none"
    /\ UNCHANGED side

Next ==
    \/ \E d \in Dispatchers : Dispatcher(d)
    \/ \E d \in Dispatchers : Abort(d)
    \/ CancelLoad
    \/ CancelCommit
    \/ RecoverLoad
    \/ RecoverLaunch
    \/ GetStatusLoad
    \/ GetStatusLaunch
    \/ SweepSelect
    \/ SweepLaunch
    \/ Tick
    \/ Crash

Spec == Init /\ [][Next]_vars

\* The same system when a thread is only ever started while no other thread
\* of the job is alive (the previous run has returned or was killed).
LaunchIsSequential == hist'.launches > hist.launches => NoThreadAlive

NextSeq ==
    \/ \E d \in Dispatchers : Dispatcher(d)
    \/ CancelLoad
    \/ CancelCommit
    \/ RecoverLoad
    \/ RecoverLaunch /\ LaunchIsSequential
    \/ GetStatusLoad
    \/ GetStatusLaunch /\ LaunchIsSequential
    \/ SweepSelect
    \/ SweepLaunch /\ LaunchIsSequential
    \/ Tick
    \/ Crash

SpecSeq == Init /\ [][NextSeq]_vars

\* Threads, cancel and manual recover racing on the row, with the clock held.
NextRace ==
    \/ \E d \in Dispatchers : Dispatcher(d)
    \/ \E d \in Dispatchers : Abort(d)
    \/ CancelLoad
    \/ CancelCommit
    \/ RecoverLoad
    \/ RecoverLaunch
    \/ Crash

SpecRace == Init /\ [][NextRace]_vars

\* One run of the thread started by POST send-bulk: no cancel, no recovery,
\* no restart.
NextSolo ==
    \/ \E d \in Dispatchers : Dispatcher(d)
    \/ \E d \in Dispatchers : Abort(d)

SpecSolo == Init /\ [][NextSolo]_vars

\* The first run is killed at some point, the process restarts and runs the
\* sweep; nothing is cancelled and the resumed run is not killed.  Threads
\* that are started run, and the sweep that is called runs to its end.
NextLive ==
    \/ \E d \in Dispatchers : Dispatcher(d)
    \/ SweepSelect
    \/ SweepLaunch
    \/ Tick
    \/ Crash /\ hist.launches = 1 /\ ~NoThreadAlive

SpecLive ==
    /\ Init
    /\ [][NextLive]_vars
    /\ \A d \in Dispatchers : WF_vars(Dispatcher(d))
    /\ WF_vars(SweepSelect)
    /\ WF_vars(SweepLaunch)

\* The sweep as the only source of resumed threads: runs are killed with the
\* process, the sweep of the restarted process looks at the job, and a cancel
\* request can commit between the sweep's query and its re-read.  The clock
\* runs past the sweep's longer threshold.
NextSweep ==
    \/ \E d \in Dispatchers : Dispatcher(d)
    \/ CancelLoad
    \/ CancelCommit
    \/ SweepSelect
    \/ SweepLaunch
    \/ TickTo(MaxSweepTime)
    \/ Crash /\ ~NoThreadAlive

SpecSweep == Init /\ [][NextSweep]_vars

(***************************************************************************)
(* The shared client's limiter under the threads that send through it      *)
(***************************************************************************)

\* the job's own state, which the limiter, the admission check and
\* fetch-details leave alone
jobVars == <<job, recipients, now, disp, cancel, rec, resp, hist, client>>

\* no job yet and no thread
NoJobYet ==
    /\ job = NoJob
    /\ recipients = <<>>
    /\ now = 0
    /\ disp = [d \in Dispatchers |-> IdleDispatcher]
    /\ cancel = "idle"
    /\ rec = "idle"
    /\ resp = "none"
    /\ hist = NoHistory

\* application.py:5943  time_module.sleep(0.5): the step of the limiter's clock
ClockStep == Tenths \div 2

InitLimiter ==
    /\ NoJobYet
    /\ \E t \in Tiers : lim = NewLimiter(t)
    /\ gate = NoRequest
    /\ recon = NoRecords
    /\ client = TRUE

\* teleobi_client.py:552-563 (also 739 and application.py:5849): a thread asks
\* can_send, one critical section; only an allowed thread goes on to the
\* provider request
Gate(s) ==
    /\ lim.th[s] = "idle"
    /\ Len(lim.log) < MaxSends
    /\ LET c == CleanOldEntries(lim, lim.clock)
       IN  lim' = [c EXCEPT !.th[s] = IF CanSend(c, lim.clock).allowed
                                       THEN "request" ELSE "idle"]
    /\ UNCHANGED <<jobVars, gate, recon>>

\* teleobi_client.py:649-660: the provider answers; record_send, a second
\* critical section, only on success
Respond(s) ==
    /\ lim.th[s] = "request"
    /\ \E success \in BOOLEAN :
         lim' = IF success
                THEN [RecordSend(lim, lim.clock) EXCEPT !.th[s] = "idle"]
                ELSE [lim EXCEPT !.th[s] = "idle"]
    /\ UNCHANGED <<jobVars, gate, recon>>

\* time.time() moves on
Advance ==
    /\ lim.clock + ClockStep <= MaxClock
    /\ lim' = [lim EXCEPT !.clock = @ + ClockStep]
    /\ UNCHANGED <<jobVars, gate, recon>>

NextLimiter ==
    \/ \E s \in Senders : Gate(s)
    \/ \E s \in Senders : Respond(s)
    \/ Advance

SpecLimiter == InitLimiter /\ [][NextLimiter]_vars

\* The limiter called directly by one caller: can_send, then record_send
\* whatever can_send said, again and again.
CanSendCall ==
    /\ lim.th[1] = "idle"
    /\ Len(lim.results) < MaxSends
    /\ LET c == CleanOldEntries(lim, lim.clock)
           r == CanSend(c, lim.clock)
       IN  lim' = [c EXCEPT !.th[1] = "checked",
                            !.results = Append(@, [allowed |-> r.allowed,
                                                   wait |-> r.wait,
                                                   at |-> lim.clock])]
    /\ UNCHANGED <<jobVars, gate, recon>>

RecordSendCall ==
    /\ lim.th[1] = "checked"
    /\ lim' = [RecordSend(lim, lim.clock) EXCEPT !.th[1] = "idle"]
    /\ UNCHANGED <<jobVars, gate, recon>>

NextPacing ==
    \/ CanSendCall
    \/ RecordSendCall
    \/ Advance

SpecPacing == InitLimiter /\ [][NextPacing]_vars

\* the limiter after k sends recorded one second apart, the last one now
PacedLimiter(tier, k) ==
    LET sends == [i \in 1..k |-> (i - k) * Tenths]
    IN  [NewLimiter(tier) EXCEPT !.secondly_sends = Within(sends, 0, SecondWindow),
                                 !.minutely_sends = sends,
                                 !.hourly_sends = sends,
                                 !.daily_sends = sends,
                                 !.log = sends]

\* the numbers of earlier sends the limiter is called with: none, a few, and
\* as many as fill the per-minute window
EarlierSends(tier) ==
    LET per_minute == TIER_LIMITS[tier].per_minute
    IN  (0..MaxSends) \cup {per_minute - 1, per_minute}

\* The limiter of a tier 1 client called directly, after some sends of the
\* last minute.
InitWaits ==
    /\ NoJobYet
    /\ \E k \in EarlierSends(1) : lim = PacedLimiter(1, k)
    /\ gate = NoRequest
    /\ recon = NoRecords
    /\ client = TRUE

SpecWaits == InitWaits /\ [][NextPacing]_vars

(***************************************************************************)
(* get_stats (teleobi_client.py:168-189), called by get_quality_metrics    *)
(* for POST send-bulk (application.py:5687) and the metrics route (6786).  *)
(* It runs _clean_old_entries without acquiring the lock, so each of the   *)
(* four statements "self.x = [t for t in self.x if now - t < w]" is a read *)
(* of the list and a later assignment, with the other threads' locked      *)
(* sections in between.                                                    *)
(***************************************************************************)

\* teleobi_client.py:107-110: time.time(), and the comprehension over the
\* first list
GetStatsBegin ==
    /\ lim.stats_call.window = 0
    /\ lim' = [lim EXCEPT !.stats_call =
                  [window |-> 1, now |-> lim.clock,
                   kept |-> Within(lim.secondly_sends, lim.clock, SecondWindow)]]
    /\ UNCHANGED <<jobVars, gate, recon>>

\* teleobi_client.py:110-119: the assignment of the list built, and the
\* comprehension over the next list; after the fourth list the call returns
GetStatsStep ==
    /\ lim.stats_call.window > 0
    /\ LET call == lim.stats_call
           w == call.window
           assigned == [lim EXCEPT ![WindowNames[w]] = call.kept]
       IN  lim' = [assigned EXCEPT !.stats_call =
                     IF w < Len(WindowNames)
                     THEN [window |-> w + 1, now |-> call.now,
                           kept |-> Within(assigned[WindowNames[w + 1]], call.now,
                                           WindowWidths[w + 1])]
                     ELSE [window |-> 0, now |-> 0, kept |-> <<>>]]
    /\ UNCHANGED <<jobVars, gate, recon>>

NextStats ==
    \/ \E s \in Senders : Gate(s)
    \/ \E s \in Senders : Respond(s)
    \/ Advance
    \/ GetStatsBegin
    \/ GetStatsStep

\* application.py:5370  the client of the default tier
InitStats ==
    /\ NoJobYet
    /\ lim = NewLimiter(1)
    /\ gate = NoRequest
    /\ recon = NoRecords
    /\ client = TRUE

SpecStats == InitStats /\ [][NextStats]_vars

(***************************************************************************)
(* The threads' way through the client for one recipient with a phone      *)
(* number and a template: application.py:5848-5851, 5876-5928, 5943 and    *)
(* send_template_message (teleobi_client.py:520-714).  A sleep moves the    *)
(* clock.                                                                  *)
(***************************************************************************)

\* the recipients started so far: finished ones and those under way
Started == Len(lim.outcomes) + Cardinality({s \in Senders : lim.th[s] # "idle"})

\* application.py:5886-5928, 5943: the SendResult is back; the thread writes
\* the send record and the counters ('sent', or 'failed' with the error
\* message), sleeps 0.5 s and goes on to the next recipient
Finish(l, s, outcome) ==
    [l EXCEPT !.th[s] = "idle",
              !.throttled[s] = FALSE,
              !.clock = @ + ClockStep,
              !.outcomes = Append(@, [throttled |-> l.throttled[s],
                                      outcome |-> outcome])]

\* application.py:5848-5851: can_send; when refused, sleep the wait once
LoopGate(s) ==
    /\ lim.th[s] = "idle"
    /\ Started < MaxSends
    /\ LET c == CleanOldEntries(lim, lim.clock)
           r == CanSend(c, lim.clock)
       IN  lim' = [c EXCEPT !.th[s] = "validate",
                            !.throttled[s] = ~r.allowed,
                            !.clock = IF r.allowed THEN @ ELSE @ + r.wait]
    /\ UNCHANGED <<jobVars, gate, recon>>

\* teleobi_client.py:541-549 with 716-749: _validate_before_send for a well
\* formed number: can_send, then the failure rate; a refusal is returned as
\* a failed SendResult
Validate(s) ==
    /\ lim.th[s] = "validate"
    /\ LET c == CleanOldEntries(lim, lim.clock)
       IN  lim' = IF ~CanSend(c, lim.clock).allowed
                  THEN Finish([c EXCEPT !.throttled[s] = TRUE], s, "rate_limit")
                  ELSE IF FailureRateHigh(c.quality_metrics)
                  THEN Finish(c, s, "failure_rate")
                  ELSE [c EXCEPT !.th[s] = "gate"]
    /\ UNCHANGED <<jobVars, gate, recon>>

\* teleobi_client.py:551-563: can_send; when refused, sleep the wait and ask
\* once more; a second refusal is returned as a failed SendResult (429)
SendGate(s) ==
    /\ lim.th[s] = "gate"
    /\ LET c1 == CleanOldEntries(lim, lim.clock)
           r1 == CanSend(c1, lim.clock)
           t2 == lim.clock + r1.wait
           c2 == [CleanOldEntries(c1, t2) EXCEPT !.clock = t2,
                                                 !.throttled[s] = TRUE]
       IN  lim' = IF r1.allowed THEN [c1 EXCEPT !.th[s] = "request"]
                  ELSE IF CanSend(c2, t2).allowed
                  THEN [c2 EXCEPT !.th[s] = "request"]
                  ELSE Finish(c2, s, "rate_limit")
    /\ UNCHANGED <<jobVars, gate, recon>>

ProviderOutcomes == {"success", "api_error", "http_error", "exception"}

\* teleobi_client.py:637-714 with _make_request (229-276): the provider
\* request and the bookkeeping of its outcome.  _make_request raises on a
\* timeout, a connection error or exhausted retries, before total_sends is
\* counted (651).
Request(s) ==
    /\ lim.th[s] = "request"
    /\ \E o \in ProviderOutcomes :
         LET m == lim.quality_metrics
             counted == IF o = "exception" THEN m
                        ELSE [m EXCEPT !.total_sends = @ + 1]
             metrics == IF o = "success"
                        THEN [counted EXCEPT !.successful_sends = @ + 1]
                        ELSE [counted EXCEPT !.failed_sends = @ + 1]
             recorded == IF o = "success" THEN RecordSend(lim, lim.clock) ELSE lim
         IN  lim' = Finish([recorded EXCEPT !.quality_metrics = metrics], s,
                           IF o = "success" THEN "sent" ELSE "provider_error")
    /\ UNCHANGED <<jobVars, gate, recon>>

\* a client that has sent k messages, all successfully, one second apart
ClientAfter(tier, k) ==
    [PacedLimiter(tier, k) EXCEPT
        !.quality_metrics = [total_sends |-> k, successful_sends |-> k,
                             failed_sends |-> 0],
        !.clock = IF k > 0 THEN ClockStep ELSE 0]

InitClient ==
    /\ NoJobYet
    /\ \E k \in EarlierSends(1) : lim = ClientAfter(1, k)
    /\ gate = NoRequest
    /\ recon = NoRecords
    /\ client = TRUE

NextClient ==
    \/ \E s \in Senders : LoopGate(s)
    \/ \E s \in Senders : Validate(s)
    \/ \E s \in Senders : SendGate(s)
    \/ \E s \in Senders : Request(s)

SpecClient == InitClient /\ [][NextClient]_vars

(***************************************************************************)
(* POST send-bulk (api_send_bulk_whatsapp, application.py:5679-5730)       *)
(***************************************************************************)

\* the tiers a request is tried on: one with a daily limit, and the one
\* without
CreateTiers == {1, 4}

\* the lengths of the recipient list a request is tried with: short lists,
\* and lists that reach the daily limit
RecipientCounts(tier) ==
    LET per_day == TIER_LIMITS[tier].per_day
    IN  (1..MaxRecipients)
        \cup (IF per_day = NULL THEN {}
              ELSE {per_day - d : d \in 0..MaxSends} \cup {per_day + 1})

\* the limiter after k sends recorded at time 0
LimiterAfter(tier, k) ==
    LET sends == [i \in 1..k |-> 0]
    IN  [NewLimiter(tier) EXCEPT !.secondly_sends = sends,
                                 !.minutely_sends = sends,
                                 !.hourly_sends = sends,
                                 !.daily_sends = sends,
                                 !.log = sends]

\* a request arrives; the client has counted total_sends provider calls of
\* which successful_sends succeeded, and the limiter holds some sends of
\* today; a process that has not built its client yet has counted nothing
InitCreate ==
    /\ NoJobYet
    /\ \E t \in CreateTiers, k \in 0..MaxSends : lim = LimiterAfter(t, k)
    /\ \E total \in 0..MaxTotalSends :
         \E succ \in 0..total :
           \E n \in RecipientCounts(lim.tier) :
             gate = [pc |-> "request", n |-> n, total_sends |-> total,
                     successful_sends |-> succ, resp |-> "none"]
    /\ recon = NoRecords
    /\ client \in {c \in BOOLEAN : c \/ (gate.total_sends = 0 /\ lim.log = <<>>)}

\* 5679-5730: no client -> 500; quality rule -> 400; daily cap -> 429;
\* otherwise the row is committed and the thread started.
\* get_quality_metrics() calls get_stats(), which prunes the windows.
CreateJob ==
    /\ gate.pc = "request"
    /\ \E available \in (IF client THEN {TRUE} ELSE BOOLEAN) :
         LET m == [total_sends |-> gate.total_sends,
                   successful_sends |-> gate.successful_sends]
             cleaned == CleanOldEntries(lim, lim.clock)
             code == IF ~available THEN "create_500"
                     ELSE IF QualityLow(m) THEN "create_400"
                     ELSE IF DailyLimitExceeded(DailyStats(cleaned), gate.n)
                          THEN "create_429"
                     ELSE "create_200"
         IN  /\ client' = available
             /\ lim' = IF available THEN cleaned ELSE lim
             /\ gate' = [gate EXCEPT !.pc = "done", !.resp = code]
             /\ IF code = "create_200"
                THEN /\ job' = NewJob(gate.n)
                     /\ recipients' = [i \in 1..gate.n |-> "phone"]
                     /\ disp' = [disp EXCEPT ![1] =
                                    [IdleDispatcher EXCEPT !.pc = "launched"]]
                ELSE UNCHANGED <<job, recipients, disp>>
    /\ resp' = "none"
    /\ UNCHANGED <<now, cancel, rec, hist, recon>>

NextCreate == CreateJob

SpecCreate == InitCreate /\ [][NextCreate]_vars

(***************************************************************************)
(* POST fetch-details (api_fetch_job_details, application.py:6458-6650)    *)
(* for job J.  Every record is of J's template and was created after J,    *)
(* within a day; some belong to another job K.                             *)
(***************************************************************************)

OwnedBy(records, j) == {i \in RecordIds : records[i].owner = j}

\* the row of J after its thread has written the records it owns
JobAfterRun(records) ==
    LET mine == OwnedBy(records, JobJ)
        failed == Cardinality({i \in mine : records[i].status = "failed"})
    IN  [status |-> FinalStatus(failed),
         total_recipients |-> Cardinality(mine),
         processed_count |-> Cardinality(mine),
         sent_count |-> Cardinality(mine) - failed,
         failed_count |-> failed,
         started_at |-> 0, updated_at |-> 0]

InitRecon ==
    /\ \E records \in NewRecords :
         /\ OwnedBy(records, JobJ) # {}
         /\ recon = [NoRecords EXCEPT !.records = records]
         /\ job = JobAfterRun(records)
         /\ recipients = [i \in 1..Cardinality(OwnedBy(records, JobJ)) |-> "phone"]
    /\ now = 0
    /\ disp = [d \in Dispatchers |-> IdleDispatcher]
    /\ cancel = "idle"
    /\ rec = "idle"
    /\ resp = "none"
    /\ hist = NoHistory
    /\ lim = NewLimiter(1)
    /\ gate = NoRequest
    /\ client = TRUE

\* the statuses one poll can leave in a record of the given status that has a
\* message id, over everything the provider can answer for it
PolledOutcomes ==
    [st \in {"sent", "delivered", "read", "failed"} |->
        {NewStatus([owner |-> JobJ, tagged |-> TRUE, status |-> st,
                    wa_message_id |-> TRUE], sd) : sd \in StatusData}]

\* the statuses one pass can leave in a record
PossibleStatus(r) ==
    IF FetchSelects(r, JobJ) /\ r.wa_message_id
    THEN PolledOutcomes[r.status]
    ELSE {r.status}

\* 6480-6642: one pass: poll every selected record, commit, recalculate the
\* statistics and return them
FetchDetails ==
    /\ recon.passes < MaxPasses
    /\ \E status \in [RecordIds -> {"sent", "delivered", "read", "failed"}] :
         /\ \A i \in RecordIds : status[i] \in PossibleStatus(recon.records[i])
         /\ LET updated == [i \in RecordIds |->
                               [recon.records[i] EXCEPT !.status = status[i]]]
            IN  /\ recon' = [recon EXCEPT !.records = updated,
                                          !.stats = Recalculate(updated),
                                          !.passes = @ + 1]
                /\ job' = JobAfterFetch(job, updated)
    /\ UNCHANGED <<recipients, now, disp, cancel, rec, resp, hist, client>>
    /\ UNCHANGED <<lim, gate>>

NextRecon == FetchDetails

SpecRecon == InitRecon /\ [][NextRecon]_vars

\* fetch-details for J called while J's first thread runs; the records there
\* are so far were written by another job K that sends the same template
\* without variables, so that they carry no job id, and were all sent
InitFetchRun ==
    /\ recipients \in {[i \in 1..n |-> "phone"] : n \in 1..MaxRecipients}
    /\ job = NewJob(Len(recipients))
    /\ now = 0
    /\ disp = [d \in Dispatchers |->
                 IF d = 1 THEN [IdleDispatcher EXCEPT !.pc = "launched"]
                 ELSE IdleDispatcher]
    /\ cancel = "idle"
    /\ rec = "idle"
    /\ resp = "none"
    /\ hist = NoHistory
    /\ lim = NewLimiter(1)
    /\ gate = NoRequest
    /\ \E records \in NewRecords :
         /\ \A i \in RecordIds :
              /\ records[i].owner = JobK
              /\ ~records[i].tagged
              /\ records[i].status = "sent"
         /\ recon = [NoRecords EXCEPT !.records = records]
    /\ client = TRUE

NextFetchRun ==
    \/ \E d \in Dispatchers : Dispatcher(d)
    \/ FetchDetails

SpecFetchRun == InitFetchRun /\ [][NextFetchRun]_vars

\* 6538-6624: the loop body for one selected record with a message id and a
\* status other than 'failed': ask the provider and set the record's status
\* from the answer
PollRecord(i) ==
    /\ FetchSelects(recon.records[i], JobJ)
    /\ Polled(recon.records[i])
    /\ \E sd \in StatusData :
         recon' = [recon EXCEPT
                     !.records[i].status = NewStatus(recon.records[i], sd),
                     !.polled = [id |-> i, before |-> recon.records[i].status,
                                 answer |-> sd]]
    /\ UNCHANGED <<jobVars, lim, gate>>

NextPoll == \E i \in RecordIds : PollRecord(i)

\* J's thread has written the records, all of them its own and carrying its
\* job id
InitPoll ==
    /\ InitRecon
    /\ \A i \in RecordIds :
         recon.records[i].owner = JobJ /\ recon.records[i].tagged

SpecPoll == InitPoll /\ [][NextPoll]_vars

(***************************************************************************)
(* Properties                                                              *)
(***************************************************************************)

Alive(d) == disp[d].pc # "idle"

\* the thread is inside the recipient loop or finalizing
InLoop(d) == disp[d].pc \in {"loop", "persist", "except", "finalize"}

\* the provider has been called for recipients[index + 1] and the result is
\* on its way to the row
HasSent(d) == disp[d].pc \in {"persist", "except"}

\* C1: once the persisted status is completed, partial, failed or cancelled
\* it never changes again, and a thread started on a job in one of these
\* states returns without going on to write to it.
C1_TerminalIsFinal ==
    [][/\ job.status \in Terminal => job'.status = job.status
       /\ \A d \in Dispatchers :
            (job.status \in Terminal /\ disp[d].pc = "launched"
                /\ disp'[d].pc # "launched")
            => disp'[d].pc = "idle"]_vars

\* C2: the persisted processed_count never decreases.
C2_ProcessedNeverDecreases ==
    [][job'.processed_count >= job.processed_count]_vars

\* C3: a thread that found processed_count = k in the row when it loaded the
\* job calls the provider only for list indices >= k.
C3_ResumeSkipsProcessed ==
    \A d \in Dispatchers : HasSent(d) => disp[d].index >= disp[d].loaded_k

\* C3 witness: a thread started by recovery on a job with progress has called
\* the provider.
C3_ResumedSend ==
    \E d \in Dispatchers :
        /\ disp[d].recovery
        /\ disp[d].loaded_k > 0
        /\ disp[d].pc = "persist"

\* C4: at most one thread is iterating the recipients of the job.
C4_OneDispatcherInLoop ==
    Cardinality({d \in Dispatchers : InLoop(d)}) <= 1

\* C5: when a cancel has committed before a thread started by recovery makes
\* its first pass of the loop, the thread stops there: it calls the provider
\* for no recipient and the status stays cancelled.
C5_NoResumeOfCancelled ==
    [][\A d \in Dispatchers :
         (/\ hist.cancel_at # NULL
          /\ disp[d].recovery
          /\ disp[d].pc = "loop"
          /\ disp[d].index = disp[d].start_index
          /\ disp'[d] # disp[d])
         => (disp'[d].pc = "idle" /\ job'.status = "cancelled")]_vars

\* C6: after a cancel of a processing job has committed, the status stays
\* cancelled and processed_count advances by at most the check interval.
C6_CancelStops ==
    hist.cancel_from = "processing" =>
        /\ job.status = "cancelled"
        /\ job.processed_count <= hist.cancel_at + CheckInterval

\* C7: a cancel or recover request that finds the job completed, partial,
\* failed or cancelled is answered 400, changes no field of the job and
\* starts no thread; only a request that found it pending or processing gets
\* past the check.
C7_FinishedJobRejected ==
    [][/\ (job.status \in Terminal /\ cancel = "idle") => cancel' = "idle"
       /\ (job.status \in Terminal /\ rec = "idle") => rec' # "manual"
       /\ job.status \in Terminal => resp' # "recover_200"
       /\ resp' = "cancel_200" => cancel = "loaded"
       /\ resp' \in {"cancel_400", "recover_400"} =>
            (job' = job /\ disp' = disp /\ hist' = hist)]_vars

\* C7 witness: a cancel request has just been refused for a partial job.
C7_CancelRefused == resp = "cancel_400" /\ job.status = "partial"

\* C8: processed_count <= len(recipients) and
\* sent_count + failed_count <= processed_count in every persisted state.
C8_CounterBounds ==
    /\ job.processed_count <= job.total_recipients
    /\ job.sent_count + job.failed_count <= job.processed_count

\* C9: completed means processed_count = len(recipients) and no failure,
\* partial means processed_count = len(recipients) and some failure.
C9_FinalStatusMatchesCounts ==
    /\ job.status = "completed" =>
         (job.processed_count = job.total_recipients /\ job.failed_count = 0)
    /\ job.status = "partial" =>
         (job.processed_count = job.total_recipients /\ job.failed_count > 0)

\* C10: a single uninterrupted run over n recipients of which f fail ends
\* with processed_count = n, sent_count = n - f, failed_count = f, and
\* status completed when f = 0 and partial otherwise.
C10_RunTotals ==
    (\A d \in Dispatchers : ~Alive(d)) /\ job.status \in {"completed", "partial"} =>
        /\ job.processed_count = job.total_recipients
        /\ job.sent_count = job.total_recipients - hist.fails
        /\ job.failed_count = hist.fails
        /\ job.status = (IF hist.fails = 0 THEN "completed" ELSE "partial")

\* the job is left in processing, incomplete, by a run that is gone, and its
\* last update is older than the sweep's threshold
Stalled ==
    /\ NoThreadAlive
    /\ job.status = "processing"
    /\ job.processed_count < job.total_recipients
    /\ now - job.updated_at > StaleAfter

FullyProcessed ==
    /\ job.status \in {"completed", "partial"}
    /\ job.processed_count = job.total_recipients

\* a thread started by recovery begins at the persisted processed_count
ResumesAtProcessedCount ==
    \A d \in Dispatchers :
        (disp[d].recovery /\ disp[d].pc \in {"claim", "client"})
            => disp[d].start_index = job.processed_count

SendsInWindow(log, t0, width) ==
    Len(SelectSeq(log, LAMBDA x : x >= t0 /\ x - t0 < width))

\* C12: whatever the interleaving of the threads' can_send and record_send
\* calls, the sends recorded in any window of 1 s, 60 s, 3600 s or 86400 s
\* do not exceed the tier's limit for that window (for a per_second limit
\* below one message: one message).
C12_WindowLimitsRespected ==
    LET limits == TIER_LIMITS[lim.tier]
    IN  \A i \in 1..Len(lim.log) :
          LET t0 == lim.log[i]
          IN  /\ Tenths * SendsInWindow(lim.log, t0, SecondWindow)
                    <= Max(limits.per_second, Tenths)
              /\ SendsInWindow(lim.log, t0, MinuteWindow) <= limits.per_minute
              /\ SendsInWindow(lim.log, t0, HourWindow) <= limits.per_hour
              /\ limits.per_day # NULL =>
                    SendsInWindow(lim.log, t0, DayWindow) <= limits.per_day

\* the calls so far were made with no delay after the first one
NoDelay == \A i \in 1..Len(lim.results) : lim.results[i].at = lim.results[1].at

\* within half a second of the given number of seconds
About(wait, seconds) ==
    /\ wait >= seconds * Tenths - Tenths \div 2
    /\ wait <= seconds * Tenths + Tenths \div 2

\* C13: on tier 1 (per_second = 0.5), from empty windows and with no delay
\* between the cycles, the first can_send allows, the second reports a wait
\* of about 2 s and the third a wait of about 4 s.
C13_TierOnePacing ==
    (lim.tier = 1 /\ NoDelay) =>
        /\ Len(lim.results) >= 1 => lim.results[1].allowed
        /\ Len(lim.results) >= 2 =>
              (~lim.results[2].allowed /\ About(lim.results[2].wait, 2))
        /\ Len(lim.results) >= 3 =>
              (~lim.results[3].allowed /\ About(lim.results[3].wait, 4))

\* the request was answered by the admission checks
Answered == gate.pc = "done" /\ gate.resp # "create_500"

NothingCreated == job = NoJob /\ NoThreadAlive

\* C14: a request is rejected on quality grounds exactly when
\* total_sends > 10 and successful_sends / total_sends < 0.3, and then no
\* job row exists and no thread was started.
C14_QualityRule ==
    Answered =>
        /\ gate.resp = "create_400" <=>
              (/\ gate.total_sends > 10
               /\ 10 * gate.successful_sends < 3 * gate.total_sends)
        /\ gate.resp = "create_400" => NothingCreated

\* C14 witness: a request was rejected for low quality and nothing was created.
C14_RejectedForQuality ==
    /\ gate.pc = "done"
    /\ gate.resp = "create_400"
    /\ NothingCreated

\* C15: a request is rejected by the daily cap exactly when the tier's daily
\* limit is bounded and the limiter's per-day usage plus the number of
\* recipients exceeds it, and then no job row exists and no thread was
\* started; on the tier without a daily limit the cap never rejects.
C15_DailyCapRule ==
    LET limit == TIER_LIMITS[lim.tier].per_day
        used == Len(lim.daily_sends)
        over == limit # NULL /\ used + gate.n > limit
    IN  Answered =>
            /\ gate.resp = "create_429" => over
            /\ over => (gate.resp \in {"create_400", "create_429"} /\ NothingCreated)
            /\ (over /\ ~QualityLow(gate)) => gate.resp = "create_429"

\* C15 witness: a request that would pass the daily limit was rejected by the
\* cap and nothing was created.
C15_RejectedByDailyCap ==
    /\ gate.pc = "done"
    /\ gate.resp = "create_429"
    /\ NothingCreated

\* the position of a status on the way sent -> delivered -> read
Rank(status) ==
    CASE status = "sent" -> 1
      [] status = "delivered" -> 2
      [] status = "read" -> 3
      [] OTHER -> 0

\* C16: over any passes and provider answers a record's status only moves
\* forward along sent -> delivered -> read (or to failed), and a failed
\* record is never changed.
C16_StatusOnlyForward ==
    [][\A i \in RecordIds :
         LET before == recon.records[i].status
             after == recon'.records[i].status
         IN  /\ before = "failed" => after = "failed"
             /\ (before # "failed" /\ after # "failed") =>
                    Rank(after) >= Rank(before)]_vars

\* C18: after a pass for J the returned delivered_count, read_count and
\* failed_count count J's own records only.
C18_StatsCountOwnRecords ==
    LET mine == OwnedBy(recon.records, JobJ)
        count(statuses) ==
            Cardinality({i \in mine : recon.records[i].status \in statuses})
    IN  recon.passes > 0 =>
            /\ recon.stats.delivered_count = count({"delivered", "read"})
            /\ recon.stats.read_count = count({"read"})
            /\ recon.stats.failed_count = count({"failed"})

\* C17: a manual recover is answered with success, and starts a thread, only
\* for a job the recovery selection rule would pick: processing, incomplete,
\* and stale, old or without a start time.
C17_RecoverOnlyWhenStalled ==
    [][resp' = "recover_200" =>
          (SweepSelects(job) /\ SweepShouldResume(job, now))]_vars

\* C19: the status becomes failed only while the persisted processed_count
\* is 0; an error that ends a thread of a job with progress leaves the job
\* in processing with its processed_count.
C19_FailedOnlyWithoutProgress ==
    [][(job'.status = "failed" /\ job.status # "failed") =>
          (job.processed_count = 0 /\ job'.processed_count = 0)]_vars

\* the thread is between the attempt of recipients[index + 1] and the write
\* of its result, or about to attempt it
Attempting(d) == disp[d].pc \in {"loop", "persist", "except"}

\* C20: within one run the list position only moves from i to i + 1, it
\* moves only after recipient i was attempted, and a lookup failure, a
\* missing template, a provider error or an exception at i is followed by
\* the attempt of i + 1; the final status is written only past the end of
\* the list.
C20_InOrderNoSkip ==
    [][\A d \in Dispatchers :
         LET before == disp[d]
             after == disp'[d]
             n == job.total_recipients
         IN  /\ (Attempting(d) /\ after.pc \in {"loop", "persist", "except"}) =>
                    after.index \in {before.index, before.index + 1}
             /\ (before.pc \in {"persist", "except"} /\ after # before
                    /\ after.pc # "idle") =>
                    \/ after.pc = "except" /\ after.index = before.index
                    \/ after.pc = "loop" /\ after.index = before.index + 1
             /\ (before.pc = "loop" /\ before.index < n /\ after # before
                    /\ after.pc # "idle") =>
                    \/ after.pc \in {"persist", "except"}
                          /\ after.index = before.index
                    \/ after.pc = "loop" /\ after.index = before.index + 1
                          /\ recipients[before.index + 1] = "nophone"
             /\ after.pc = "finalize" => after.index = n]_vars

\* C20 witness: in a run started by recovery the recipient at the start
\* index failed (no phone number) and the next one has been attempted.
C20_NextAttemptedAfterFailure ==
    \E d \in Dispatchers :
        /\ disp[d].recovery
        /\ disp[d].pc = "persist"
        /\ disp[d].index = disp[d].start_index + 1
        /\ disp[d].failed_count > job.failed_count

\* C21: every attempted recipient leaves exactly one committed send record:
\* each step that moves a thread on to the next list position adds one
\* record, whatever the outcome of the attempt (sent, provider error, no
\* phone number, missing template, exception), and so the number of records
\* of the job equals its persisted processed_count.
C21_OneRecordPerAttempt ==
    /\ [](hist.records = job.processed_count)
    /\ [][\A d \in Dispatchers :
            (Attempting(d) /\ disp'[d].index = disp[d].index + 1)
                => hist'.records = hist.records + 1]_vars

\* the job as the sweep's selection rule is stated: processing, incomplete,
\* and without a start time, or not updated for more than 120 s, or started
\* more than 300 s ago
QualifiesForSweep ==
    /\ job.status = "processing"
    /\ job.processed_count < job.total_recipients
    /\ \/ job.started_at = NULL
       \/ now - job.updated_at > 120
       \/ now - job.started_at > 300

\* C22: the sweep goes on to its re-read exactly for a job that qualifies at
\* selection, starts a thread exactly when the re-read status is still
\* processing, and otherwise changes nothing; no step of the sweep writes the
\* job.
C22_SweepLaunchRule ==
    /\ []((rec = "idle" /\ NoThreadAlive /\ QualifiesForSweep)
            => ENABLED SweepSelect)
    /\ [][/\ (rec = "idle" /\ rec' = "sweep") => QualifiesForSweep
          /\ hist'.launches > hist.launches =>
                (rec = "sweep" /\ job.status = "processing")
          /\ (rec = "sweep" /\ rec' = "idle" /\ job.status = "processing") =>
                (/\ hist'.launches = hist.launches + 1
                 /\ \E d \in Dispatchers :
                       disp[d].pc = "idle" /\ disp'[d].pc = "launched")
          /\ (rec = "sweep" /\ rec' = "idle" /\ job.status # "processing") =>
                (disp' = disp /\ hist' = hist)
          /\ rec' # rec => job' = job]_vars

\* C22 witness: the sweep has just started a thread for a job with progress
\* that had been left in processing.
C22_SweepLaunched ==
    /\ rec = "idle"
    /\ job.status = "processing"
    /\ job.processed_count > 0
    /\ \E d \in Dispatchers : disp[d].pc = "launched" /\ disp[d].recovery

\* the answer of the can_send call that has just returned
LastResult == lim.results[Len(lim.results)]

JustChecked ==
    /\ lim.th[1] = "checked"
    /\ LastResult.at = lim.clock

\* the waits of the windows that are at capacity
WaitsAtCapacity(l, t) ==
    LET limits == TIER_LIMITS[l.tier]
    IN  (IF Tenths * Len(l.secondly_sends) >= limits.per_second
         THEN {WaitFor(l.secondly_sends, t, SecondWindow)} ELSE {})
        \cup (IF Len(l.minutely_sends) >= limits.per_minute
              THEN {WaitFor(l.minutely_sends, t, MinuteWindow)} ELSE {})
        \cup (IF Len(l.hourly_sends) >= limits.per_hour
              THEN {WaitFor(l.hourly_sends, t, HourWindow)} ELSE {})
        \cup (IF limits.per_day # NULL /\ Len(l.daily_sends) >= limits.per_day
              THEN {WaitFor(l.daily_sends, t, DayWindow)} ELSE {})

\* C23: a can_send call that refuses returns the longest of the waits of the
\* windows at capacity, and a call allows only when no window is at capacity.
C23_LongestWaitReturned ==
    JustChecked =>
        LET waits == WaitsAtCapacity(lim, lim.clock)
        IN  /\ LastResult.allowed <=> waits = {}
            /\ ~LastResult.allowed =>
                  (/\ LastResult.wait \in waits
                   /\ \A w \in waits : w <= LastResult.wait)

\* C24: a recipient the limiter has refused is never ended by the rate limit:
\* the thread waits until can_send allows and only then goes to the
\* provider, so the recipient ends as sent or with the provider's error.
C24_ThrottledNeverFailed ==
    \A i \in 1..Len(lim.outcomes) :
        lim.outcomes[i].throttled => lim.outcomes[i].outcome # "rate_limit"

\* C25: under any interleaving of can_send, record_send and get_stats every
\* recorded send stays in each of the four window lists until it is older
\* than the window.
C25_NoRecordedSendLost ==
    \A w \in 1..Len(WindowNames) :
        Len(Within(lim[WindowNames[w]], lim.clock, WindowWidths[w]))
            = Len(Within(lim.log, lim.clock, WindowWidths[w]))

\* what the provider's answer says about the message
AnswerSaysRead(sd) == sd.read_time

AnswerSaysDelivered(sd) ==
    sd.delivery_status_updated_at \/ sd.message_status = "delivered"

AnswerSaysFailed(sd) == sd.failed_time \/ sd.message_status = "failed"

\* C26: for every provider answer the polled record becomes read when a read
\* timestamp is present; otherwise delivered when a delivery timestamp or the
\* delivered status is present; otherwise failed when a failure timestamp or
\* the failed status is present; otherwise it is sent or keeps its status.
C26_StatusPrecedence ==
    [][recon'.polled # recon.polled =>
          LET p == recon'.polled
              sd == p.answer
              new == recon'.records[p.id].status
          IN  IF AnswerSaysRead(sd) THEN new = "read"
              ELSE IF AnswerSaysDelivered(sd) THEN new = "delivered"
              ELSE IF AnswerSaysFailed(sd) THEN new = "failed"
              ELSE new \in {"sent", p.before}]_vars

\* C26 witness: the provider answered with a read timestamp, a failure
\* timestamp and the delivered status at once, and the record is read.
C26_ReadWinsOverAll ==
    /\ recon.polled.id # 0
    /\ recon.polled.answer.read_time
    /\ recon.polled.answer.failed_time
    /\ recon.polled.answer.message_status = "delivered"
    /\ recon.records[recon.polled.id].status = "read"

\* C27: a pass writes no column of the job (processed_count, sent_count and
\* status among them) and leaves every record without a message id or with
\* status failed as it is; what the thread of the same job has committed is
\* still in the row after a pass, and only the thread moves processed_count.
C27_PassLeavesJobAlone ==
    [][/\ recon' # recon => job' = job
       /\ \A i \in RecordIds :
            (~recon.records[i].wa_message_id \/ recon.records[i].status = "failed")
                => recon'.records[i] = recon.records[i]
       /\ job'.processed_count # job.processed_count =>
            \E d \in Dispatchers :
                /\ disp[d].pc \in {"persist", "except", "finalize"}
                /\ disp'[d] # disp[d]]_vars

\* C27 witness: a pass has run while the job's thread was between two
\* recipients, with its committed progress in the row.
C27_PassDuringRun ==
    /\ recon.passes > 0
    /\ job.status = "processing"
    /\ job.processed_count > 0
    /\ \E d \in Dispatchers : disp[d].pc = "persist"

\* C28: when the status is completed or partial, sent_count + failed_count
\* equals the number of recipients, also when the run that wrote the final
\* status was started by recovery after an earlier run was killed.
C28_FinalCountsCoverList ==
    job.status \in {"completed", "partial"} =>
        job.sent_count + job.failed_count = job.total_recipients

\* C29: after any sequence of send_template_message calls, with any outcome
\* of the provider request, total_sends = successful_sends + failed_sends.
C29_MetricsAddUp ==
    lim.quality_metrics.total_sends
        = lim.quality_metrics.successful_sends + lim.quality_metrics.failed_sends

\* the breaker condition on the metrics: total_sends > 0 and
\* failed_sends / total_sends > 0.5
BreakerOpen(l) ==
    /\ l.quality_metrics.total_sends > 0
    /\ 2 * l.quality_metrics.failed_sends > l.quality_metrics.total_sends

\* a send that has passed the validation and has not returned yet
InFlight(l) == {s \in Senders : l.th[s] \in {"gate", "request"}}

\* the thread's send_template_message call returns a failure from the
\* validation: no provider request, no record_send, no metric changed
RefusedCall(s) ==
    /\ lim.th[s] = "validate"
    /\ lim'.th[s] = "idle"
    /\ lim'.quality_metrics = lim.quality_metrics
    /\ lim'.log = lim.log
    /\ Len(lim'.outcomes) = Len(lim.outcomes) + 1
    /\ lim'.outcomes[Len(lim'.outcomes)].outcome \in {"failure_rate", "rate_limit"}

\* a send_template_message call is made while the breaker is open and is
\* refused by the validation
OpenBreakerRefuses ==
    \A s \in Senders :
        (BreakerOpen(lim) /\ lim.th[s] = "validate" /\ lim'.th[s] # "validate")
            => RefusedCall(s)

\* C30 as stated: once the breaker condition holds, every later call with
\* validation is refused without a provider request and without a change of
\* the metrics, and the condition holds for the rest of the process.
C30_BreakerLatches ==
    [][/\ OpenBreakerRefuses
       /\ BreakerOpen(lim) => BreakerOpen(lim')]_vars

\* C30 amended: every call with validation made while the breaker condition
\* holds is refused without a provider request and without a change of the
\* metrics, and a call is refused for the failure rate only then; the
\* metrics change only through sends that had passed the validation before,
\* so with no such send in flight the condition holds for the rest of the
\* process, and it can cease to hold only when such a send returns.
C30_BreakerLatchesOnceQuiet ==
    [][/\ OpenBreakerRefuses
       /\ \A s \in Senders :
            (/\ lim.th[s] = "validate"
             /\ Len(lim'.outcomes) > Len(lim.outcomes)
             /\ lim'.outcomes[Len(lim'.outcomes)].outcome = "failure_rate")
                => BreakerOpen(lim)
       /\ (BreakerOpen(lim) /\ InFlight(lim) = {}) =>
            (/\ BreakerOpen(lim')
             /\ InFlight(lim') = {}
             /\ lim'.quality_metrics = lim.quality_metrics)
       /\ (BreakerOpen(lim) /\ ~BreakerOpen(lim')) =>
            \E s \in InFlight(lim) : lim.th[s] = "request" /\ lim'.th[s] = "idle"]_vars

\* C30 witness: the breaker is open, no send is in flight, and a recipient
\* has been ended by the failure rate check.
C30_RefusedByBreaker ==
    /\ BreakerOpen(lim)
    /\ InFlight(lim) = {}
    /\ \E i \in 1..Len(lim.outcomes) : lim.outcomes[i].outcome = "failure_rate"

====
